---- MODULE Spec2Model ----
(***************************************************************************)
(* The PowerPoint extraction scripts of backend/scripts:                   *)
(*   extract_pptx.py              text of every slide                      *)
(*   extract_pptx_with_images.py  text of every slide and, with an output  *)
(*                                directory, the pictures of every slide   *)
(* A Python str is a sequence of one-character strings, a bytes object a   *)
(* sequence of integers 0..255, None an optional with is_none = TRUE.      *)
(***************************************************************************)
EXTENDS Integers, Sequences, FiniteSets, TLC

VARIABLES
    file_state,       \* what Presentation(file_path) finds: "ok", "missing", "corrupt"
    file_path,        \* argv[1]
    prs,              \* the package: core_properties, slides, slide_width, slide_height
    output_dir,       \* argv[2] of extract_pptx_with_images.py, or None
    dir_state,        \* the path output_dir on disk: "dir", "file", "absent", "blocked"
    files,            \* the regular files on disk: path -> bytes
    stderr,           \* the warnings printed to sys.stderr, in order
    pc,               \* position of extract_pptx_data
    loader,           \* "Idle", "Loaded", "Failed": how Presentation(file_path) ended
    metadata,         \* local metadata of extract_pptx_data
    slides,           \* local slides of extract_pptx_data
    texts,            \* the local texts of each extract_text_from_slide call so far
    all_images,       \* local all_images of extract_pptx_data
    full_text_parts,  \* local full_text_parts of extract_pptx_data
    result,           \* what extract_pptx_data returned
    pcT,              \* position of extract_text_from_pptx
    metadataT,        \* local metadata of extract_text_from_pptx
    slidesT,          \* local slides of extract_text_from_pptx
    textsT,           \* the local texts of each of its extract_text_from_slide calls
    resultT,          \* what extract_text_from_pptx returned
    exc,              \* the exception the try block of extract_pptx_data raised, if any
    excT,             \* the exception the try block of extract_text_from_pptx raised
    disk0             \* the disk before the run: its dir_state and files

vars == <<file_state, file_path, prs, output_dir, dir_state, files, stderr, pc, loader,
          metadata, slides, texts, all_images, full_text_parts, result,
          pcT, metadataT, slidesT, textsT, resultT, exc, excT, disk0>>

-----------------------------------------------------------------------------
(* Python values *)

None == [is_none |-> TRUE, value |-> <<>>]

Some(v) == [is_none |-> FALSE, value |-> v]

\* bool(x) of an optional str: None and "" are falsy
Truthy(x) == ~x.is_none /\ x.value # <<>>

\* x or ''
OrEmpty(x) == IF Truthy(x) THEN x.value ELSE <<>>

\* str(x) if x else ''
StrOrEmpty(x) == IF Truthy(x) THEN x.value ELSE <<>>

Whitespace == {" ", "\n", "\t"}

Range(s) == {s[i] : i \in 1..Len(s)}

SetMin(S) == CHOOSE x \in S : \A y \in S : x <= y

SetMax(S) == CHOOSE x \in S : \A y \in S : x >= y

\* str.strip(): drop the leading and the trailing whitespace
Strip(s) ==
    LET keep == {i \in 1..Len(s) : s[i] \notin Whitespace}
    IN  IF keep = {} THEN <<>> ELSE SubSeq(s, SetMin(keep), SetMax(keep))

\* sep.join(parts)
RECURSIVE Join(_, _)
Join(sep, parts) ==
    IF parts = <<>> THEN <<>>
    ELSE IF Len(parts) = 1 THEN parts[1]
    ELSE parts[1] \o sep \o Join(sep, Tail(parts))

Digits == <<"0", "1", "2", "3", "4", "5", "6", "7", "8", "9">>

\* str(n) of an int n >= 0
RECURSIVE Str(_)
Str(n) == IF n < 10 THEN <<Digits[n + 1]>> ELSE Str(n \div 10) \o <<Digits[(n % 10) + 1]>>

\* s.split('/')[-1]: what follows the last '/', the whole of s when it has none
LastSegment(s) ==
    LET cut == {i \in 1..Len(s) : s[i] = "/"}
    IN  IF cut = {} THEN s ELSE SubSeq(s, SetMax(cut) + 1, Len(s))

\* os.path.join(a, b) for a relative b
PathJoin(a, b) == IF a # <<>> /\ a[Len(a)] = "/" THEN a \o b ELSE a \o <<"/">> \o b

B64Alphabet ==
    <<"A", "B", "C", "D", "E", "F", "G", "H", "I", "J", "K", "L", "M",
      "N", "O", "P", "Q", "R", "S", "T", "U", "V", "W", "X", "Y", "Z",
      "a", "b", "c", "d", "e", "f", "g", "h", "i", "j", "k", "l", "m",
      "n", "o", "p", "q", "r", "s", "t", "u", "v", "w", "x", "y", "z",
      "0", "1", "2", "3", "4", "5", "6", "7", "8", "9", "+", "/">>

B64Char(n) == B64Alphabet[n + 1]

\* base64.b64encode(data).decode('utf-8'): 3 bytes make 4 characters, padded with '='
RECURSIVE B64Encode(_)
B64Encode(data) ==
    IF data = <<>> THEN <<>>
    ELSE IF Len(data) = 1 THEN
        <<B64Char(data[1] \div 4), B64Char((data[1] % 4) * 16), "=", "=">>
    ELSE IF Len(data) = 2 THEN
        <<B64Char(data[1] \div 4),
          B64Char((data[1] % 4) * 16 + data[2] \div 16),
          B64Char((data[2] % 16) * 4), "=">>
    ELSE
        <<B64Char(data[1] \div 4),
          B64Char((data[1] % 4) * 16 + data[2] \div 16),
          B64Char((data[2] % 16) * 4 + data[3] \div 64),
          B64Char(data[3] % 64)>> \o B64Encode(SubSeq(data, 4, Len(data)))

\* s[:n]
Prefix(s, n) == SubSeq(s, 1, IF Len(s) < n THEN Len(s) ELSE n)

-----------------------------------------------------------------------------
(* python-pptx objects.  A shape is a record
     [shape_type, has_text, text, rows, shapes, content_type, blob, fault]
   has_text is hasattr(shape, "text"); rows are the cell texts of shape.table;
   shapes are the children of a group; content_type and blob belong to
   shape.image; fault says which statement of the picture's extraction raises.
   A slide is [shapes, has_notes_slide, has_notes_frame, notes_text]. *)

NoFault == "none"

AutoShape(text) ==
    [shape_type |-> "AUTO_SHAPE", has_text |-> TRUE, text |-> text, rows |-> <<>>,
     shapes |-> <<>>, content_type |-> <<>>, blob |-> <<>>, fault |-> NoFault]

Table(rows) ==
    [shape_type |-> "TABLE", has_text |-> FALSE, text |-> <<>>, rows |-> rows,
     shapes |-> <<>>, content_type |-> <<>>, blob |-> <<>>, fault |-> NoFault]

Group(shapes) ==
    [shape_type |-> "GROUP", has_text |-> FALSE, text |-> <<>>, rows |-> <<>>,
     shapes |-> shapes, content_type |-> <<>>, blob |-> <<>>, fault |-> NoFault]

Picture(content_type, blob, fault) ==
    [shape_type |-> "PICTURE", has_text |-> FALSE, text |-> <<>>, rows |-> <<>>,
     shapes |-> <<>>, content_type |-> content_type, blob |-> blob, fault |-> fault]

Connector ==
    [shape_type |-> "LINE", has_text |-> FALSE, text |-> <<>>, rows |-> <<>>,
     shapes |-> <<>>, content_type |-> <<>>, blob |-> <<>>, fault |-> NoFault]

Slide(shapes, has_notes_slide, has_notes_frame, notes_text) ==
    [shapes |-> shapes, has_notes_slide |-> has_notes_slide,
     has_notes_frame |-> has_notes_frame, notes_text |-> notes_text]

-----------------------------------------------------------------------------
(* extract_pptx_with_images.py: extract_text_from_slide *)

NewLine == <<"\n">>

\* "|".join in place of " | ".join
CellSeparatorTight == <<"|">>

CellSeparator == <<" ", "|", " ">>

SpeakerNotes == <<"S", "p", "e", "a", "k", "e", "r", " ", "N", "o", "t", "e", "s", ":", " ">>

\* the text of the shape appended as it is, not stripped
TextFrameTextsUnstripped(shape, acc) ==
    IF shape.has_text /\ shape.text # <<>> THEN Append(acc, shape.text) ELSE acc

\* if hasattr(shape, "text") and shape.text: append the stripped text when not empty
TextFrameTexts(shape, acc) ==
    IF shape.has_text /\ shape.text # <<>>
    THEN LET text == Strip(shape.text)
         IN  IF text # <<>> THEN Append(acc, text) ELSE acc
    ELSE acc

\* for cell in row.cells: keep the stripped text when not empty
RECURSIVE CellLoop(_, _)
CellLoop(cells, row_texts) ==
    IF cells = <<>> THEN row_texts
    ELSE LET text == Strip(Head(cells))
         IN  CellLoop(Tail(cells), IF text # <<>> THEN Append(row_texts, text) ELSE row_texts)

\* a fragment for every row, also for one that kept no cell
RECURSIVE RowLoopEveryRow(_, _)
RowLoopEveryRow(rows, acc) ==
    IF rows = <<>> THEN acc
    ELSE RowLoopEveryRow(Tail(rows),
                         Append(acc, Join(CellSeparator, CellLoop(Head(rows), <<>>))))

\* for row in shape.table.rows: one fragment for a row that kept a cell
RECURSIVE RowLoop(_, _)
RowLoop(rows, acc) ==
    IF rows = <<>> THEN acc
    ELSE LET row_texts == CellLoop(Head(rows), <<>>)
         IN  RowLoop(Tail(rows),
                     IF row_texts # <<>> THEN Append(acc, Join(CellSeparator, row_texts))
                     ELSE acc)

\* if shape.shape_type == MSO_SHAPE_TYPE.TABLE
TableTexts(shape, acc) ==
    IF shape.shape_type = "TABLE" THEN RowLoop(shape.rows, acc) ELSE acc

\* a child handled as a shape of the slide is: its text and the rows of its table
SubShapeTextsWithTables(sub_shape, acc) == TableTexts(sub_shape, TextFrameTexts(sub_shape, acc))

\* if hasattr(sub_shape, "text") and sub_shape.text: the text of the child itself
SubShapeTexts(sub_shape, acc) ==
    IF sub_shape.has_text /\ sub_shape.text # <<>>
    THEN LET text == Strip(sub_shape.text)
         IN  IF text # <<>> THEN Append(acc, text) ELSE acc
    ELSE acc

\* for sub_shape in shape.shapes: the children only, nothing below them
RECURSIVE SubShapeLoop(_, _)
SubShapeLoop(sub_shapes, acc) ==
    IF sub_shapes = <<>> THEN acc
    ELSE SubShapeLoop(Tail(sub_shapes), SubShapeTexts(Head(sub_shapes), acc))

\* if shape.shape_type == MSO_SHAPE_TYPE.GROUP
GroupTexts(shape, acc) ==
    IF shape.shape_type = "GROUP" THEN SubShapeLoop(shape.shapes, acc) ELSE acc

\* the body of for shape in slide.shapes: the three ifs, in their order
ShapeTexts(shape, acc) == GroupTexts(shape, TableTexts(shape, TextFrameTexts(shape, acc)))

\* for shape in slide.shapes
RECURSIVE ShapeLoop(_, _)
ShapeLoop(shapes, acc) ==
    IF shapes = <<>> THEN acc ELSE ShapeLoop(Tail(shapes), ShapeTexts(Head(shapes), acc))

\* the notes put before the fragments of the shapes
NotesTextsFirst(slide, acc) ==
    IF slide.has_notes_slide
    THEN LET notes_text == Strip(slide.notes_text)
         IN  IF notes_text # <<>> THEN <<SpeakerNotes \o notes_text>> \o acc ELSE acc
    ELSE acc

\* if slide.has_notes_slide: the notes, after the shapes
NotesTexts(slide, acc) ==
    IF slide.has_notes_slide
    THEN LET notes_text == Strip(slide.notes_text)
         IN  IF notes_text # <<>> THEN Append(acc, SpeakerNotes \o notes_text) ELSE acc
    ELSE acc

\* the list texts when extract_text_from_slide returns
SlideTexts(slide) == NotesTexts(slide, ShapeLoop(slide.shapes, <<>>))

\* a notes slide without a notes placeholder read as one without text
TextRaisesNever(slide) == FALSE

\* notes_slide.notes_text_frame is None on a notes slide without a notes placeholder:
\* .text on it raises AttributeError
TextRaises(slide) == slide.has_notes_slide /\ ~slide.has_notes_frame

\* the fragments joined by a space
SlideDataSpaces(slide_texts, slide_number) ==
    [slide_number |-> slide_number,
     content |-> Join(<<" ">>, slide_texts),
     text_count |-> Len(slide_texts)]

\* the slides numbered from 0
SlideDataFromZero(slide_texts, slide_number) ==
    [slide_number |-> slide_number - 1,
     content |-> Join(NewLine, slide_texts),
     text_count |-> Len(slide_texts)]

\* the record extract_text_from_slide returns
SlideData(slide_texts, slide_number) ==
    [slide_number |-> slide_number,
     content |-> Join(NewLine, slide_texts),
     text_count |-> Len(slide_texts)]

extract_text_from_slide(slide, slide_number) == SlideData(SlideTexts(slide), slide_number)

-----------------------------------------------------------------------------
(* extract_pptx_with_images.py: extract_images_from_slide *)

PreviewLen == 100

Png == <<"p", "n", "g">>

DataPrefix == <<"d", "a", "t", "a", ":">>

Base64Marker == <<";", "b", "a", "s", "e", "6", "4", ",">>

Ellipsis == <<".", ".", ".">>

\* content_type.split('/')[-1] if '/' in content_type else 'png'
Ext(content_type) ==
    IF "/" \in Range(content_type) THEN LastSegment(content_type) ELSE Png

\* the shape index itself in the name
FilenameShapeIdx(slide_number, shape_idx, ext) ==
    <<"s", "l", "i", "d", "e", "_">> \o Str(slide_number)
        \o <<"_", "i", "m", "g", "_">> \o Str(shape_idx) \o <<".">> \o ext

\* f"slide_{slide_number}_img_{shape_idx + 1}.{ext}"
Filename(slide_number, shape_idx, ext) ==
    <<"s", "l", "i", "d", "e", "_">> \o Str(slide_number)
        \o <<"_", "i", "m", "g", "_">> \o Str(shape_idx + 1) \o <<".">> \o ext

\* the whole encoding in the record
Base64Whole(content_type, image_base64) ==
    DataPrefix \o content_type \o Base64Marker \o image_base64 \o Ellipsis

\* f"data:{content_type};base64,{image_base64[:100]}..."
Base64Preview(content_type, image_base64) ==
    DataPrefix \o content_type \o Base64Marker \o Prefix(image_base64, PreviewLen) \o Ellipsis

\* the record appended to images
ImageRecord(shape, slide_number, shape_idx, out) ==
    LET filename == Filename(slide_number, shape_idx, Ext(shape.content_type))
    IN  [filename |-> filename,
         path |-> PathJoin(out, filename),
         content_type |-> shape.content_type,
         size |-> Len(shape.blob),
         base64 |-> Base64Preview(shape.content_type, B64Encode(shape.blob))]

\* print(f"Warning: Failed to extract image from slide {slide_number}, shape {shape_idx}: {e}")
Warning(slide_number, shape_idx) == [slide_number |-> slide_number, shape_idx |-> shape_idx]

\* what a write that raises leaves in the file open(filepath, 'wb') created
PartialWrite(blob) == SubSeq(blob, 1, Len(blob) \div 2)

\* the try block for the picture at shape_idx, on st = [images, files, stderr]:
\* shape.image, .blob or .content_type raises; or open() raises (also when the
\* directory is none); or f.write raises; or the file is written and recorded
ExtractPicture(shape, slide_number, shape_idx, out, dstate, st) ==
    LET rec == ImageRecord(shape, slide_number, shape_idx, out)
        warned == Append(st.stderr, Warning(slide_number, shape_idx))
    IN  IF shape.fault = "read" \/ shape.fault = "open" \/ dstate # "dir"
        THEN [st EXCEPT !.stderr = warned]
        ELSE IF shape.fault = "write"
        THEN [st EXCEPT !.stderr = warned,
                        !.files = (rec.path :> PartialWrite(shape.blob)) @@ st.files]
        ELSE [st EXCEPT !.images = Append(st.images, rec),
                        !.files = (rec.path :> shape.blob) @@ st.files]

\* the try around the loop: the first picture that fails ends the slide's extraction
RECURSIVE ImageLoopUntilFailure(_, _, _, _, _, _)
ImageLoopUntilFailure(shapes, shape_idx, slide_number, out, dstate, st) ==
    IF shape_idx >= Len(shapes) THEN st
    ELSE LET next == IF shapes[shape_idx + 1].shape_type = "PICTURE"
                     THEN ExtractPicture(shapes[shape_idx + 1], slide_number, shape_idx,
                                         out, dstate, st)
                     ELSE st
         IN  IF Len(next.stderr) > Len(st.stderr) THEN next
             ELSE ImageLoopUntilFailure(shapes, shape_idx + 1, slide_number, out, dstate, next)

\* for shape_idx, shape in enumerate(slide.shapes): only pictures are extracted
RECURSIVE ImageLoop(_, _, _, _, _, _)
ImageLoop(shapes, shape_idx, slide_number, out, dstate, st) ==
    IF shape_idx >= Len(shapes) THEN st
    ELSE ImageLoop(shapes, shape_idx + 1, slide_number, out, dstate,
                   IF shapes[shape_idx + 1].shape_type = "PICTURE"
                   THEN ExtractPicture(shapes[shape_idx + 1], slide_number, shape_idx,
                                       out, dstate, st)
                   ELSE st)

\* extract_images_from_slide: its images, and the files and stderr it leaves
extract_images_from_slide(slide, slide_number, out, dstate, disk, err) ==
    ImageLoop(slide.shapes, 0, slide_number, out, dstate,
              [images |-> <<>>, files |-> disk, stderr |-> err])

-----------------------------------------------------------------------------
(* extract_pptx.py: its own extract_text_from_slide *)

TTextFrameTexts(shape, acc) ==
    IF shape.has_text /\ shape.text # <<>>
    THEN LET text == Strip(shape.text)
         IN  IF text # <<>> THEN Append(acc, text) ELSE acc
    ELSE acc

RECURSIVE TCellLoop(_, _)
TCellLoop(cells, row_texts) ==
    IF cells = <<>> THEN row_texts
    ELSE LET text == Strip(Head(cells))
         IN  TCellLoop(Tail(cells), IF text # <<>> THEN Append(row_texts, text) ELSE row_texts)

RECURSIVE TRowLoop(_, _)
TRowLoop(rows, acc) ==
    IF rows = <<>> THEN acc
    ELSE LET row_texts == TCellLoop(Head(rows), <<>>)
         IN  TRowLoop(Tail(rows),
                      IF row_texts # <<>> THEN Append(acc, Join(CellSeparator, row_texts))
                      ELSE acc)

TTableTexts(shape, acc) ==
    IF shape.shape_type = "TABLE" THEN TRowLoop(shape.rows, acc) ELSE acc

TSubShapeTexts(sub_shape, acc) ==
    IF sub_shape.has_text /\ sub_shape.text # <<>>
    THEN LET text == Strip(sub_shape.text)
         IN  IF text # <<>> THEN Append(acc, text) ELSE acc
    ELSE acc

RECURSIVE TSubShapeLoop(_, _)
TSubShapeLoop(sub_shapes, acc) ==
    IF sub_shapes = <<>> THEN acc
    ELSE TSubShapeLoop(Tail(sub_shapes), TSubShapeTexts(Head(sub_shapes), acc))

TGroupTexts(shape, acc) ==
    IF shape.shape_type = "GROUP" THEN TSubShapeLoop(shape.shapes, acc) ELSE acc

TShapeTexts(shape, acc) == TGroupTexts(shape, TTableTexts(shape, TTextFrameTexts(shape, acc)))

RECURSIVE TShapeLoop(_, _)
TShapeLoop(shapes, acc) ==
    IF shapes = <<>> THEN acc ELSE TShapeLoop(Tail(shapes), TShapeTexts(Head(shapes), acc))

TNotesTexts(slide, acc) ==
    IF slide.has_notes_slide
    THEN LET notes_text == Strip(slide.notes_text)
         IN  IF notes_text # <<>> THEN Append(acc, SpeakerNotes \o notes_text) ELSE acc
    ELSE acc

TSlideTexts(slide) == TNotesTexts(slide, TShapeLoop(slide.shapes, <<>>))

TSlideData(slide_texts, slide_number) ==
    [slide_number |-> slide_number,
     content |-> Join(NewLine, slide_texts),
     text_count |-> Len(slide_texts)]

-----------------------------------------------------------------------------
(* The result records of both scripts *)

FileNotFoundMessage == <<"F", "i", "l", "e", " ", "n", "o", "t", " ", "f", "o", "u", "n", "d", ":", " ">>

ErrorMessage == <<"E", "r", "r", "o", "r", " ", "e", "x", "t", "r", "a", "c", "t", "i", "n", "g", " ", "P", "P", "T", "X", ":", " ">>

\* str(e) of the exceptions the model raises
PackageNotFoundText(path) == <<"P", "a", "c", "k", "a", "g", "e", " ", "n", "o", "t", " ", "f", "o", "u", "n", "d", " ", "a", "t", " ", "'">> \o path \o <<"'">>

BadZipText == <<"b", "a", "d", " ", "z", "i", "p">>

MakeDirsText == <<"d", "e", "n", "i", "e", "d">>

NoneTypeText == <<"N", "o", "n", "e", "T", "y", "p", "e">>

\* str(e) of the FileNotFoundError of open(path)
FileNotFoundText(path) == <<"[", "E", "r", "r", "n", "o", " ", "2", "]", " ", "N", "o", " ", "s", "u", "c", "h", " ", "f", "i", "l", "e", " ", "o", "r", " ", "d", "i", "r", "e", "c", "t", "o", "r", "y", ":", " ", "'">> \o path \o <<"'">>

NoException == [type |-> "none", text |-> <<>>]

Exception(type, text) == [type |-> type, text |-> text]

\* what Presentation(file_path) raises for a path that is no file: FileNotFoundError
\* when the library opens the path, python-pptx's PackageNotFoundError when it
\* tests the path first
MissingFileExceptions == {"FileNotFoundError", "PackageNotFoundError"}

Failure(error) == [success |-> FALSE, error |-> error]

\* except FileNotFoundError
FileNotFoundResult(path) == Failure(FileNotFoundMessage \o path)

\* except Exception as e
ExceptionResult(text) == Failure(ErrorMessage \o text)

NotReturned == [returned |-> FALSE]

\* what Presentation(file_path) raises on a file in state `state`, the library
\* taking path e for a missing file
LoadException(state, path, e) ==
    IF state = "missing"
    THEN IF e = "FileNotFoundError"
         THEN Exception("FileNotFoundError", FileNotFoundText(path))
         ELSE Exception("PackageNotFoundError", PackageNotFoundText(path))
    ELSE Exception("BadZipFile", BadZipText)

\* except OSError in place of except Exception: any other exception leaves the
\* function
HandlerOSError(e, path) ==
    IF e.type = "FileNotFoundError" THEN FileNotFoundResult(path)
    ELSE IF e.type = "PermissionError" THEN ExceptionResult(e.text)
    ELSE NotReturned

\* the two except clauses: what the function returns for the exception e
Handler(e, path) ==
    IF e.type = "FileNotFoundError" THEN FileNotFoundResult(path)
    ELSE ExceptionResult(e.text)

\* metadata = {...}
Metadata(p) ==
    [title |-> OrEmpty(p.core_properties.title),
     author |-> OrEmpty(p.core_properties.author),
     subject |-> OrEmpty(p.core_properties.subject),
     created |-> StrOrEmpty(p.core_properties.created),
     modified |-> StrOrEmpty(p.core_properties.modified),
     slide_count |-> Len(p.slides),
     slide_width |-> p.slide_width,
     slide_height |-> p.slide_height]

SlideMarkerOpen == <<"=", "=", "=", " ", "S", "l", "i", "d", "e", " ">>

SlideMarkerClose == <<" ", "=", "=", "=">>

BlankLine == <<"\n", "\n">>

\* f"=== Slide {s['slide_number']} ===\n{s['content']}"
SlideBlock(s) == SlideMarkerOpen \o Str(s.slide_number) \o SlideMarkerClose \o NewLine \o s.content

\* for s in slides: if s['content']: full_text_parts.append(...)
RECURSIVE FullTextParts(_, _)
FullTextParts(ss, parts) ==
    IF ss = <<>> THEN parts
    ELSE FullTextParts(Tail(ss),
                       IF Head(ss).content # <<>> THEN Append(parts, SlideBlock(Head(ss)))
                       ELSE parts)

\* the blocks joined by a single newline
FullTextOneNewline(parts) == Join(NewLine, parts)

\* '\n\n'.join(full_text_parts)
FullText(parts) == Join(BlankLine, parts)

HasContent(s) == s.content # <<>>

\* every slide counted, with content or not
SlidesWithTextAll(ss) == Len(ss)

\* len([s for s in slides if s['content']])
SlidesWithText(ss) == Len(SelectSeq(ss, HasContent))

\* the dict extract_pptx_data returns
ImageSuccess(meta, ss, parts, p, images) ==
    [success |-> TRUE,
     metadata |-> meta,
     slides |-> ss,
     full_text |-> FullText(parts),
     total_slides |-> Len(p.slides),
     slides_with_text |-> SlidesWithText(ss),
     total_characters |-> Len(FullText(parts)),
     total_images |-> Len(images),
     images |-> images]

\* extract_pptx.py builds its full_text and its result with its own statements
TSlideBlock(s) == SlideMarkerOpen \o Str(s.slide_number) \o SlideMarkerClose \o NewLine \o s.content

RECURSIVE TFullTextParts(_, _)
TFullTextParts(ss, parts) ==
    IF ss = <<>> THEN parts
    ELSE TFullTextParts(Tail(ss),
                        IF Head(ss).content # <<>> THEN Append(parts, TSlideBlock(Head(ss)))
                        ELSE parts)

TFullText(parts) == Join(BlankLine, parts)

TSlidesWithText(ss) == Len(SelectSeq(ss, HasContent))

\* the dict extract_text_from_pptx returns
TextSuccess(meta, ss, p) ==
    [success |-> TRUE,
     metadata |-> meta,
     slides |-> ss,
     full_text |-> TFullText(TFullTextParts(ss, <<>>)),
     total_slides |-> Len(p.slides),
     slides_with_text |-> TSlidesWithText(ss),
     total_characters |-> Len(TFullText(TFullTextParts(ss, <<>>)))]

-----------------------------------------------------------------------------
(* extract_text_from_pptx(file_path) of extract_pptx.py, statement by statement.
   The two scripts are run one after the other on the same package; the text
   script touches nothing the image script reads. *)

\* prs = Presentation(file_path), and the except clauses when it raises
TLoad ==
    /\ pcT = "Idle"
    /\ \E e \in MissingFileExceptions :
         IF file_state = "ok" THEN pcT' = "Metadata" /\ UNCHANGED <<resultT, excT>>
         ELSE /\ pcT' = "Done"
              /\ excT' = LoadException(file_state, file_path, e)
              /\ resultT' = Handler(excT', file_path)
    /\ UNCHANGED <<exc, disk0, file_state, file_path, prs, output_dir, dir_state, files, stderr, pc,
                   loader, metadata, slides, texts, all_images, full_text_parts, result,
                   metadataT, slidesT, textsT>>

\* metadata = {...}; slides = []
TExtractMetadata ==
    /\ pcT = "Metadata"
    /\ metadataT' = Metadata(prs)
    /\ slidesT' = <<>>
    /\ pcT' = "Slides"
    /\ UNCHANGED <<exc, excT, disk0, file_state, file_path, prs, output_dir, dir_state, files, stderr, pc,
                   loader, metadata, slides, texts, all_images, full_text_parts, result,
                   textsT, resultT>>

\* one iteration of for idx, slide in enumerate(prs.slides, start=1)
TProcessSlide ==
    /\ pcT = "Slides"
    /\ Len(slidesT) < Len(prs.slides)
    /\ LET idx == Len(slidesT) + 1
           slide == prs.slides[idx]
       IN  IF TextRaises(slide)
           THEN /\ excT' = Exception("AttributeError", NoneTypeText)
                /\ resultT' = Handler(excT', file_path)
                /\ pcT' = "Done"
                /\ UNCHANGED <<slidesT, textsT>>
           ELSE /\ slidesT' = Append(slidesT, TSlideData(TSlideTexts(slide), idx))
                /\ textsT' = Append(textsT, TSlideTexts(slide))
                /\ UNCHANGED <<pcT, resultT, excT>>
    /\ UNCHANGED <<exc, disk0, file_state, file_path, prs, output_dir, dir_state, files, stderr, pc,
                   loader, metadata, slides, texts, all_images, full_text_parts, result,
                   metadataT>>

\* the loop is over: full_text and the return
TAssemble ==
    /\ pcT = "Slides"
    /\ Len(slidesT) = Len(prs.slides)
    /\ resultT' = TextSuccess(metadataT, slidesT, prs)
    /\ pcT' = "Done"
    /\ UNCHANGED <<exc, excT, disk0, file_state, file_path, prs, output_dir, dir_state, files, stderr, pc,
                   loader, metadata, slides, texts, all_images, full_text_parts, result,
                   metadataT, slidesT, textsT>>

-----------------------------------------------------------------------------
(* extract_pptx_data(file_path, output_dir) of extract_pptx_with_images.py,
   statement by statement *)

\* prs = Presentation(file_path), and the except clauses when it raises
Load ==
    /\ pc = "Idle"
    /\ pcT = "Done"
    /\ \E e \in MissingFileExceptions :
         IF file_state = "ok"
         THEN pc' = "MakeDirs" /\ loader' = "Loaded" /\ UNCHANGED <<result, exc>>
         ELSE /\ pc' = "Done"
              /\ loader' = "Failed"
              /\ exc' = LoadException(file_state, file_path, e)
              /\ result' = Handler(exc', file_path)
    /\ UNCHANGED <<excT, disk0, file_state, file_path, prs, output_dir, dir_state, files, stderr,
                   metadata, slides, texts, all_images, full_text_parts,
                   pcT, metadataT, slidesT, textsT, resultT>>

\* os.path.exists(output_dir)
Exists(dstate) == dstate = "dir" \/ dstate = "file"

\* the directory left to be created later
MakeDirsSkipped ==
    /\ pc = "MakeDirs"
    /\ pc' = "Metadata"
    /\ UNCHANGED <<dir_state, result, exc, excT, disk0, file_state, file_path, prs,
                   output_dir, files, stderr, loader, metadata, slides, texts,
                   all_images, full_text_parts, pcT, metadataT, slidesT, textsT, resultT>>

\* if output_dir and not os.path.exists(output_dir): os.makedirs(output_dir, exist_ok=True)
MakeDirs ==
    /\ pc = "MakeDirs"
    /\ IF Truthy(output_dir) /\ ~Exists(dir_state)
       THEN IF dir_state = "absent"
            THEN dir_state' = "dir" /\ pc' = "Metadata" /\ UNCHANGED <<result, exc>>
            ELSE /\ exc' = Exception("PermissionError", MakeDirsText)
                 /\ result' = Handler(exc', file_path)
                 /\ pc' = "Done"
                 /\ dir_state' = dir_state
       ELSE pc' = "Metadata" /\ UNCHANGED <<dir_state, result, exc>>
    /\ UNCHANGED <<excT, disk0, file_state, file_path, prs, output_dir, files, stderr, loader,
                   metadata, slides, texts, all_images, full_text_parts,
                   pcT, metadataT, slidesT, textsT, resultT>>

\* metadata = {...}; slides = []; all_images = []
ExtractMetadata ==
    /\ pc = "Metadata"
    /\ metadata' = Metadata(prs)
    /\ slides' = <<>>
    /\ all_images' = <<>>
    /\ pc' = "Slides"
    /\ UNCHANGED <<exc, excT, disk0, file_state, file_path, prs, output_dir, dir_state, files, stderr,
                   loader, texts, full_text_parts, result,
                   pcT, metadataT, slidesT, textsT, resultT>>

\* the assignment slide_data['images'] = images left out
WithImagesDropped(slide_data, images) == slide_data

\* slide_data['images'] = images
WithImages(slide_data, images) ==
    [slide_number |-> slide_data.slide_number,
     content |-> slide_data.content,
     text_count |-> slide_data.text_count,
     images |-> images]

\* the images of a slide put before those of the earlier slides
ExtendFront(all, images) == images \o all

\* all_images.extend(images)
Extend(all, images) == all \o images

\* one iteration of for idx, slide in enumerate(prs.slides, start=1)
ProcessSlide ==
    /\ pc = "Slides"
    /\ Len(slides) < Len(prs.slides)
    /\ LET idx == Len(slides) + 1
           slide == prs.slides[idx]
           slide_data == extract_text_from_slide(slide, idx)
           got == extract_images_from_slide(slide, idx, output_dir.value, dir_state,
                                            files, stderr)
       IN  IF TextRaises(slide)
           THEN /\ exc' = Exception("AttributeError", NoneTypeText)
                /\ result' = Handler(exc', file_path)
                /\ pc' = "Done"
                /\ UNCHANGED <<slides, texts, all_images, files, stderr>>
           ELSE /\ texts' = Append(texts, SlideTexts(slide))
                /\ IF Truthy(output_dir)
                   THEN /\ slides' = Append(slides, WithImages(slide_data, got.images))
                        /\ all_images' = Extend(all_images, got.images)
                        /\ files' = got.files
                        /\ stderr' = got.stderr
                   ELSE /\ slides' = Append(slides, slide_data)
                        /\ UNCHANGED <<all_images, files, stderr>>
                /\ UNCHANGED <<pc, result, exc>>
    /\ UNCHANGED <<excT, disk0, file_state, file_path, prs, output_dir, dir_state, loader,
                   metadata, full_text_parts,
                   pcT, metadataT, slidesT, textsT, resultT>>

\* the loop is over: full_text_parts, full_text and the return
Assemble ==
    /\ pc = "Slides"
    /\ Len(slides) = Len(prs.slides)
    /\ full_text_parts' = FullTextParts(slides, <<>>)
    /\ result' = ImageSuccess(metadata, slides, FullTextParts(slides, <<>>), prs, all_images)
    /\ pc' = "Done"
    /\ UNCHANGED <<exc, excT, disk0, file_state, file_path, prs, output_dir, dir_state, files, stderr,
                   loader, metadata, slides, texts, all_images,
                   pcT, metadataT, slidesT, textsT, resultT>>

Next ==
    \/ TLoad
    \/ TExtractMetadata
    \/ TProcessSlide
    \/ TAssemble
    \/ Load
    \/ MakeDirs
    \/ ExtractMetadata
    \/ ProcessSlide
    \/ Assemble

-----------------------------------------------------------------------------
(* The packages and the output directories the scripts are run on *)

MaxSlides == 3

MaxShapes == 2

MaxRows == 2

MaxCells == 2

MaxChildren == 2

\* the sequences over S of length at most n
BoundedSeq(S, n) == UNION {[1..k -> S] : k \in 0..n}

FilePath == <<"a", ".", "p", "p", "t", "x">>

OutDir == <<"o", "u", "t">>

NoProps == [title |-> None, author |-> None, subject |-> None, created |-> None, modified |-> None]

SomeProps ==
    [title |-> Some(<<"T">>), author |-> Some(<<>>), subject |-> None,
     created |-> Some(<<"2", "0", "2", "4">>), modified |-> None]

Package(core_properties, deck) ==
    [core_properties |-> core_properties, slides |-> deck,
     slide_width |-> 9144000, slide_height |-> 6858000]

\* bytes objects of a given length
Blob(n) == [i \in 1..n |-> (i * 37) % 256]

ImagePng == <<"i", "m", "a", "g", "e", "/", "p", "n", "g">>

ImageJpeg == <<"i", "m", "a", "g", "e", "/", "j", "p", "e", "g">>

NoNotes == [has_notes_slide |-> FALSE, has_notes_frame |-> FALSE, notes_text |-> <<>>]

Notes(text) == [has_notes_slide |-> TRUE, has_notes_frame |-> TRUE, notes_text |-> text]

\* a notes slide without a notes placeholder
NotesWithoutFrame == [has_notes_slide |-> TRUE, has_notes_frame |-> FALSE, notes_text |-> <<>>]

SlideOf(shapes, notes) ==
    Slide(shapes, notes.has_notes_slide, notes.has_notes_frame, notes.notes_text)

EmptyFiles == [path \in {} |-> <<>>]

\* a file an earlier run left in the output directory
StaleFiles == (PathJoin(OutDir, Filename(1, 0, Png)) :> <<7, 7, 7>>)

Output(dir, dstate, disk) == [output_dir |-> dir, dir_state |-> dstate, files |-> disk]

\* no output directory: argv[2] missing, or the empty string
NoOutputs == {Output(None, "absent", EmptyFiles), Output(Some(<<>>), "absent", EmptyFiles)}

\* argv[2] names a directory that exists (empty or not), a regular file,
\* a path that can be created, or one that cannot
DirOutputs ==
    {Output(Some(OutDir), "dir", EmptyFiles), Output(Some(OutDir), "dir", StaleFiles),
     Output(Some(OutDir), "file", EmptyFiles), Output(Some(OutDir), "absent", EmptyFiles),
     Output(Some(OutDir), "blocked", EmptyFiles)}

Input(state, package) == [file_state |-> state, prs |-> package]

\* a path that is no file, and a file that is no package
BadInputs == {Input("missing", Package(NoProps, <<>>)), Input("corrupt", Package(NoProps, <<>>))}

InitWith(inputs, outputs) ==
    /\ file_path = FilePath
    /\ \E i \in inputs : file_state = i.file_state /\ prs = i.prs
    /\ \E o \in outputs :
         output_dir = o.output_dir /\ dir_state = o.dir_state /\ files = o.files
    /\ disk0 = [dir_state |-> dir_state, files |-> files]
    /\ exc = NoException
    /\ excT = NoException
    /\ stderr = <<>>
    /\ pc = "Idle"
    /\ loader = "Idle"
    /\ metadata = Metadata(Package(NoProps, <<>>))
    /\ slides = <<>>
    /\ texts = <<>>
    /\ all_images = <<>>
    /\ full_text_parts = <<>>
    /\ result = NotReturned
    /\ pcT = "Idle"
    /\ metadataT = Metadata(Package(NoProps, <<>>))
    /\ slidesT = <<>>
    /\ textsT = <<>>
    /\ resultT = NotReturned

(* Spec: whole decks, of slides of every kind *)

SlidePalette ==
    {SlideOf(<<>>, NoNotes),
     SlideOf(<<AutoShape(<<" ", "a">>), Picture(ImagePng, Blob(2), NoFault)>>, NoNotes),
     SlideOf(<<AutoShape(<<" ">>)>>, Notes(<<" ">>)),
     SlideOf(<<Picture(ImageJpeg, Blob(4), "read"), Table(<<<<<<"b">>, <<"c", " ">>>>>>)>>,
             Notes(<<"n", " ">>)),
     SlideOf(<<AutoShape(<<"d">>)>>, NotesWithoutFrame)}

Decks == BoundedSeq(SlidePalette, MaxSlides)

Inputs == BadInputs \cup {Input("ok", Package(p, d)) : p \in {NoProps, SomeProps}, d \in Decks}

Init == InitWith(Inputs, NoOutputs \cup DirOutputs)

Spec == Init /\ [][Next]_vars

(* SpecText: one slide, its shapes and its notes of every kind *)

TextShapes ==
    {AutoShape(<<>>),
     AutoShape(<<" ">>),
     AutoShape(<<" ", "a", "\n">>),
     AutoShape(<<"b", "\n", "c">>),
     Table(<<<<<<" ", "d">>, <<"e">>>>, <<<<" ">>, <<>>>>>>),
     Group(<<AutoShape(<<"f", " ">>), Group(<<AutoShape(<<"g">>)>>), AutoShape(<<"h">>)>>),
     Picture(ImagePng, Blob(2), NoFault),
     Connector}

NotesKinds == {NoNotes, Notes(<<>>), Notes(<<" ", "\t">>), Notes(<<" ", "n", " ">>), NotesWithoutFrame}

TextDecks == {<<SlideOf(shapes, notes)>> : shapes \in BoundedSeq(TextShapes, MaxShapes), notes \in NotesKinds}

TextInputs == BadInputs \cup {Input("ok", Package(NoProps, d)) : d \in TextDecks}

InitText ==
    InitWith(TextInputs, {Output(None, "absent", EmptyFiles), Output(Some(OutDir), "absent", EmptyFiles)})

SpecText == InitText /\ [][Next]_vars

(* SpecShapes: one slide holding one table or one group, of every content *)

CellTexts == {<<" ">>, <<" ", "a">>, <<"b", " ">>}

\* tables with cells whose text is the empty string
EmptyCellTables ==
    {<<<<<<>>>>>>,
     <<<<<<>>, <<" ", "a">>>>>>,
     <<<<<<>>>>, <<<<"b", " ">>>>>>,
     <<<<<<" ">>, <<>>>>, <<<<" ", "a">>, <<"b", " ">>>>>>}

\* python-pptx tables are rectangular, with at least one row and one column
Tables ==
    EmptyCellTables
        \cup UNION {[1..r -> [1..c -> CellTexts]] : r \in 1..MaxRows, c \in 1..MaxCells}

SubShapes ==
    {AutoShape(<<>>),
     AutoShape(<<" ">>),
     AutoShape(<<" ", "a">>),
     AutoShape(<<"b", " ">>),
     Group(<<AutoShape(<<"g">>)>>),
     Table(<<<<<<"t">>>>>>),
     Picture(ImagePng, Blob(2), NoFault)}

ShapeDecks ==
    {<<SlideOf(<<Table(rows)>>, NoNotes)>> : rows \in Tables}
        \cup {<<SlideOf(<<Group(children)>>, NoNotes)>> :
                 children \in BoundedSeq(SubShapes, MaxChildren)}

ShapeInputs == BadInputs \cup {Input("ok", Package(NoProps, d)) : d \in ShapeDecks}

InitShapes == InitWith(ShapeInputs, {Output(None, "absent", EmptyFiles)})

SpecShapes == InitShapes /\ [][Next]_vars

(* SpecImages: a slide of pictures of every kind, and a slide after it *)

Bmp == <<"b", "m", "p">>

ImageShapes ==
    {Picture(ImagePng, Blob(1), NoFault),
     Picture(ImageJpeg, Blob(76), NoFault),
     Picture(Bmp, Blob(0), NoFault),
     Picture(ImagePng, Blob(3), "read"),
     Picture(ImageJpeg, Blob(3), "open"),
     Picture(ImagePng, Blob(4), "write"),
     Group(<<Picture(ImagePng, Blob(2), NoFault)>>),
     AutoShape(<<"a">>)}

LaterSlides ==
    {SlideOf(<<AutoShape(<<"b">>), Picture(ImagePng, Blob(75), NoFault)>>, NoNotes),
     SlideOf(<<Picture(ImagePng, Blob(2), "read")>>, Notes(<<"n">>)),
     SlideOf(<<Picture(ImagePng, Blob(2), NoFault)>>, NotesWithoutFrame)}

ImageDecks ==
    {<<SlideOf(shapes, NoNotes)>> \o rest :
        shapes \in BoundedSeq(ImageShapes, MaxShapes),
        rest \in {<<>>} \cup {<<later>> : later \in LaterSlides}}

ImageInputs == BadInputs \cup {Input("ok", Package(NoProps, d)) : d \in ImageDecks}

InitImages == InitWith(ImageInputs, {Output(None, "absent", EmptyFiles)} \cup DirOutputs)

SpecImages == InitImages /\ [][Next]_vars

(* SpecScenario: the deck of two slides of the worked example: a title and a
   2 x 2 table, then a slide of speaker notes only *)

ScenarioDeck ==
    <<SlideOf(<<AutoShape(<<"I", "n", "t", "r", "o">>),
                Table(<<<<<<"A">>, <<"B">>>>, <<<<"C">>, <<"D">>>>>>)>>, NoNotes),
      SlideOf(<<>>, Notes(<<"R", "e", "m", "e", "m", "b", "e", "r", " ", "X">>))>>

ScenarioInputs ==
    BadInputs \cup {Input("ok", Package(p, ScenarioDeck)) : p \in {NoProps, SomeProps}}

InitScenario == InitWith(ScenarioInputs, NoOutputs \cup DirOutputs)

SpecScenario == InitScenario /\ [][Next]_vars

(* SpecTypes: pictures of every kind of content type *)

ImageSlash == <<"i", "m", "a", "g", "e", "/">>

ContentTypes == {ImagePng, ImageJpeg, Bmp, ImageSlash, <<>>}

TypeShapes == {Picture(ct, Blob(1), NoFault) : ct \in ContentTypes}

TypeDecks == {<<SlideOf(shapes, NoNotes)>> : shapes \in BoundedSeq(TypeShapes, MaxShapes)}

TypeInputs == BadInputs \cup {Input("ok", Package(NoProps, d)) : d \in TypeDecks}

InitTypes == InitWith(TypeInputs, {Output(None, "absent", EmptyFiles)} \cup DirOutputs)

SpecTypes == InitTypes /\ [][Next]_vars

-----------------------------------------------------------------------------
(* The claims *)

Returned(r) == "success" \in DOMAIN r

Succeeded(r) == Returned(r) /\ r.success

\* C1 holds of a result r for the package p: the k-th record is numbered k and
\* is the record of the k-th slide of the package
NumberedInOrder(r, p) ==
    /\ r.total_slides = Len(p.slides)
    /\ Len(r.slides) = Len(p.slides)
    /\ \A k \in 1..Len(r.slides) :
         /\ r.slides[k].slide_number = k
         /\ r.slides[k].content = Join(NewLine, SlideTexts(p.slides[k]))

\* C1: a success result of either script has total_slides = N, N slide records,
\* and the k-th record has slide_number = k, for the N slides of the package
C1_SlideNumbers ==
    /\ Succeeded(result) => NumberedInOrder(result, prs)
    /\ Succeeded(resultT) => NumberedInOrder(resultT, prs)

C1_Witness ==
    /\ Succeeded(result)
    /\ Succeeded(resultT)
    /\ Len(prs.slides) = MaxSlides
    /\ result.slides[MaxSlides].slide_number = MaxSlides

\* the text of the blocks of the slides k..Len(ss), told from the claim's words:
\* a block per slide with content, one blank line between two blocks
RECURSIVE BlocksFrom(_, _)
BlocksFrom(ss, k) ==
    IF k > Len(ss) THEN <<>>
    ELSE IF ss[k].content = <<>> THEN BlocksFrom(ss, k + 1)
    ELSE LET rest == BlocksFrom(ss, k + 1)
         IN  <<"=", "=", "=", " ", "S", "l", "i", "d", "e", " ">> \o Str(k)
                 \o <<" ", "=", "=", "=", "\n">> \o ss[k].content
                 \o (IF rest = <<>> THEN <<>> ELSE <<"\n", "\n">> \o rest)

\* C6: full_text is the blocks "=== Slide k ===" + newline + content of exactly the
\* slides k with content, ascending, one blank line between two blocks, and ""
\* when no slide has content
C6_FullText ==
    /\ Succeeded(result) => result.full_text = BlocksFrom(result.slides, 1)
    /\ Succeeded(resultT) => resultT.full_text = BlocksFrom(resultT.slides, 1)

C6_Witness ==
    /\ Succeeded(result)
    /\ Succeeded(resultT)
    /\ Len(result.slides) = 3
    /\ result.slides[1].content # <<>>
    /\ result.slides[2].content = <<>>
    /\ result.slides[3].content # <<>>

\* C7: total_characters is the length of full_text, and slides_with_text is the
\* number of slide records with content, which is the number of blocks of full_text
C7_Counters ==
    Succeeded(result) =>
        /\ result.total_characters = Len(result.full_text)
        /\ result.slides_with_text
               = Cardinality({k \in 1..Len(result.slides) : result.slides[k].content # <<>>})
        /\ result.slides_with_text = Len(full_text_parts)

C7_Witness ==
    /\ Succeeded(result)
    /\ result.slides_with_text = 2
    /\ Len(result.slides) = 3
    /\ result.total_characters > 0

\* where the i-th of the parts starts in their join by a separator of length n
RECURSIVE Offset(_, _, _)
Offset(parts, i, n) ==
    IF i = 1 THEN 0 ELSE Offset(parts, i - 1, n) + Len(parts[i - 1]) + n

\* s is the parts in their order with sep between two of them, told by positions
IsJoin(s, parts, sep) ==
    IF parts = <<>> THEN s = <<>>
    ELSE /\ Len(s) = Offset(parts, Len(parts), Len(sep)) + Len(parts[Len(parts)])
         /\ \A i \in 1..Len(parts) :
              LET at == Offset(parts, i, Len(sep))
              IN  /\ SubSeq(s, at + 1, at + Len(parts[i])) = parts[i]
                  /\ i > 1 => SubSeq(s, at - Len(sep) + 1, at) = sep

\* C2 holds of a slide record and the fragment list it was made of
ContentOfFragments(rec, frs) ==
    /\ IsJoin(rec.content, frs, <<"\n">>)
    /\ rec.text_count = Len(frs)
    /\ \A i \in 1..Len(frs) : Strip(frs[i]) # <<>>
    /\ frs = <<>> => rec.content = <<>> /\ rec.text_count = 0

\* C2: content is the newline-join of the slide's fragments in their order,
\* text_count their number; no fragment is empty after trimming; a slide without
\* fragments has content "" and text_count 0
C2_Content ==
    /\ \A k \in 1..Len(slides) : ContentOfFragments(slides[k], texts[k])
    /\ \A k \in 1..Len(slidesT) : ContentOfFragments(slidesT[k], textsT[k])

C2_Witness ==
    /\ Len(slides) = 1
    /\ Len(slidesT) = 1
    /\ slides[1].text_count = 3
    /\ slidesT[1].text_count = 3
    /\ Len(slides[1].content) > 5

RECURSIVE Flatten(_)
Flatten(lists) == IF lists = <<>> THEN <<>> ELSE Head(lists) \o Flatten(Tail(lists))

\* C3 holds of the fragment list frs of a slide
ShapesThenNotes(frs, slide) ==
    LET per == [i \in 1..Len(slide.shapes) |-> ShapeTexts(slide.shapes[i], <<>>)]
        noted == slide.has_notes_slide /\ Strip(slide.notes_text) # <<>>
        note == <<"S", "p", "e", "a", "k", "e", "r", " ", "N", "o", "t", "e", "s", ":", " ">>
                    \o Strip(slide.notes_text)
    IN  /\ noted => Len(frs) = Len(Flatten(per)) + 1 /\ frs[Len(frs)] = note
        /\ ~noted => Len(frs) = Len(Flatten(per))
        /\ SubSeq(frs, 1, Len(Flatten(per))) = Flatten(per)

\* C3: the fragments of a slide are those of its shapes in declaration order, then
\* "Speaker Notes: <trimmed notes>" once, as the last fragment, exactly when the
\* slide has notes whose trimmed text is not empty
C3_ShapesThenNotes ==
    /\ \A k \in 1..Len(texts) : ShapesThenNotes(texts[k], prs.slides[k])
    /\ \A k \in 1..Len(textsT) : ShapesThenNotes(textsT[k], prs.slides[k])

C3_Witness ==
    /\ Len(texts) = 1
    /\ Len(textsT) = 1
    /\ Len(prs.slides[1].shapes) = 2
    /\ ShapeTexts(prs.slides[1].shapes[1], <<>>) # <<>>
    /\ ShapeTexts(prs.slides[1].shapes[2], <<>>) # <<>>
    /\ prs.slides[1].shapes[1] # prs.slides[1].shapes[2]
    /\ Len(texts[1]) >= 3
    /\ texts[1][Len(texts[1])] = SpeakerNotes \o <<"n">>

NonEmpty(x) == x # <<>>

\* the cells of a row that are kept: trimmed, not empty, in cell order
KeptCells(row) == SelectSeq([c \in 1..Len(row) |-> Strip(row[c])], NonEmpty)

\* the rows that keep a cell, top to bottom
KeptRows(rows) == SelectSeq([r \in 1..Len(rows) |-> KeptCells(rows[r])], NonEmpty)

\* C4 holds of the fragments frs of the table with these rows
RowsOfTable(frs, rows) ==
    /\ Len(frs) = Len(KeptRows(rows))
    /\ \A j \in 1..Len(frs) : IsJoin(frs[j], KeptRows(rows)[j], <<" ", "|", " ">>)
    /\ Len(frs) = Cardinality({r \in 1..Len(rows) :
                                  \E c \in 1..Len(rows[r]) : Strip(rows[r][c]) # <<>>})

OnlyShape(slide, type) ==
    /\ Len(slide.shapes) = 1
    /\ slide.shapes[1].shape_type = type
    /\ ~slide.has_notes_slide

\* C4: a table gives one fragment per row with a cell that is not empty after
\* trimming, top to bottom: the row's trimmed non-empty cells joined by " | "
C4_TableRows ==
    /\ \A k \in 1..Len(texts) :
         OnlyShape(prs.slides[k], "TABLE")
             => /\ RowsOfTable(texts[k], prs.slides[k].shapes[1].rows)
                /\ slides[k].text_count = Len(KeptRows(prs.slides[k].shapes[1].rows))
    /\ \A k \in 1..Len(textsT) :
         OnlyShape(prs.slides[k], "TABLE")
             => /\ RowsOfTable(textsT[k], prs.slides[k].shapes[1].rows)
                /\ slidesT[k].text_count = Len(KeptRows(prs.slides[k].shapes[1].rows))

C4_Witness ==
    /\ Len(texts) = 1
    /\ Len(textsT) = 1
    /\ OnlyShape(prs.slides[1], "TABLE")
    /\ prs.slides[1].shapes[1].rows = <<<<<<" ">>, <<>>>>, <<<<" ", "a">>, <<"b", " ">>>>>>
    /\ texts[1] = <<<<"a", " ", "|", " ", "b">>>>

ExposesText(shape) == shape.has_text /\ Strip(shape.text) # <<>>

\* the trimmed texts of the children that expose one, in child order
ChildFragments(children) ==
    LET with == SelectSeq(children, ExposesText)
    IN  [i \in 1..Len(with) |-> Strip(with[i].text)]

\* C5: a group gives one fragment per immediate child with a non-empty trimmed
\* text, in child order, and nothing for what is nested in a child group or in a
\* table of the group
C5_GroupChildren ==
    /\ \A k \in 1..Len(texts) :
         OnlyShape(prs.slides[k], "GROUP")
             => texts[k] = ChildFragments(prs.slides[k].shapes[1].shapes)
    /\ \A k \in 1..Len(textsT) :
         OnlyShape(prs.slides[k], "GROUP")
             => textsT[k] = ChildFragments(prs.slides[k].shapes[1].shapes)

C5_Witness ==
    /\ Len(texts) = 1
    /\ Len(textsT) = 1
    /\ OnlyShape(prs.slides[1], "GROUP")
    /\ prs.slides[1].shapes[1].shapes = <<Group(<<AutoShape(<<"g">>)>>), AutoShape(<<" ", "a">>)>>
    /\ texts[1] = <<<<"a">>>>

StartsWith(s, prefix) == Len(s) >= Len(prefix) /\ SubSeq(s, 1, Len(prefix)) = prefix

\* the pictures of the deck: <<n, i>> for a picture at 0-based position i of slide n
Pictures ==
    UNION {{<<n, i>> : i \in {x \in 0..(Len(prs.slides[n].shapes) - 1) :
                                 prs.slides[n].shapes[x + 1].shape_type = "PICTURE"}} :
           n \in 1..Len(prs.slides)}

PictureAt(p) == prs.slides[p[1]].shapes[p[2] + 1]

\* "slide_<n>_img_<i+1>." for the picture p = <<n, i>>
NameStem(p) ==
    <<"s", "l", "i", "d", "e", "_">> \o Str(p[1]) \o <<"_", "i", "m", "g", "_">>
        \o Str(p[2] + 1) \o <<".">>

\* the positions in the image list recs of the records named for the picture p
RecordsOf(recs, p) == {j \in 1..Len(recs) : StartsWith(recs[j].filename, NameStem(p))}

\* the record's file is on disk, in the output directory, as long as the record says
Persisted(rec) ==
    /\ rec.path = output_dir.value \o <<"/">> \o rec.filename
    /\ rec.path \in DOMAIN files
    /\ Len(files[rec.path]) = rec.size

DistinctFilenames(recs) ==
    \A a, b \in 1..Len(recs) : a # b => recs[a].filename # recs[b].filename

\* C8 as claimed: with an output directory, every picture of the deck has exactly
\* one record and one file slide_<n>_img_<i+1>.<ext> of the recorded size, and no
\* two pictures share a filename
C8_EveryPicturePersisted ==
    (Succeeded(result) /\ Truthy(output_dir)) =>
        /\ \A p \in Pictures :
             /\ Cardinality(RecordsOf(result.images, p)) = 1
             /\ \A j \in RecordsOf(result.images, p) : Persisted(result.images[j])
        /\ DistinctFilenames(result.images)

\* the extraction of the picture p fails: a statement of its try block raises
ExtractionFails(p) == PictureAt(p).fault # NoFault \/ dir_state # "dir"

\* C8, amended: with an output directory, every picture at the top level of a slide
\* whose extraction does not fail has exactly one record, named
\* slide_<n>_img_<i+1>.<ext>, and its file in the output directory holds the
\* picture's bytes, as many as the record's size; a picture whose extraction fails
\* has no record; every record is the record of such a picture; no two records
\* share a filename
C8_ExtractedPicturesPersisted ==
    (Succeeded(result) /\ Truthy(output_dir)) =>
        /\ \A p \in Pictures :
             IF ExtractionFails(p) THEN RecordsOf(result.images, p) = {}
             ELSE /\ Cardinality(RecordsOf(result.images, p)) = 1
                  /\ \A j \in RecordsOf(result.images, p) :
                       /\ Persisted(result.images[j])
                       /\ files[result.images[j].path] = PictureAt(p).blob
        /\ Len(result.images) = Cardinality({p \in Pictures : ~ExtractionFails(p)})
        /\ DistinctFilenames(result.images)

C8_Witness ==
    /\ Succeeded(result)
    /\ Truthy(output_dir)
    /\ Len(prs.slides) = 2
    /\ <<1, 0>> \in Pictures /\ ~ExtractionFails(<<1, 0>>)
    /\ <<1, 1>> \in Pictures /\ ~ExtractionFails(<<1, 1>>)
    /\ PictureAt(<<1, 0>>) # PictureAt(<<1, 1>>)
    /\ <<2, 1>> \in Pictures
    /\ Len(result.images) = 3

Min(a, b) == IF a < b THEN a ELSE b

\* the base64 text of the bytes of the record's file
Encoded(rec) == B64Encode(files[rec.path])

\* C9 as claimed: the base64 field is the first 100 characters of the encoding and
\* the ellipsis, at most 103 characters, and never the whole encoding
C9_PreviewBounded ==
    Succeeded(result) =>
        \A j \in 1..Len(result.images) :
            LET rec == result.images[j]
            IN  /\ Len(rec.base64) <= 100 + 3
                /\ rec.base64 = Prefix(Encoded(rec), 100) \o <<".", ".", ".">>
                /\ Len(Encoded(rec)) > 100

\* C9, amended: the base64 field is "data:<content_type>;base64," then the first
\* 100 characters of the base64 encoding of the bytes (all of it for an image of at
\* most 75 bytes) then "..."; its length is len(content_type) + 16 +
\* min(100, 4 * ceil(size / 3)), at most len(content_type) + 116 whatever the size
C9_PreviewOfDataUri ==
    Succeeded(result) =>
        \A j \in 1..Len(result.images) :
            LET rec == result.images[j]
                head == <<"d", "a", "t", "a", ":">> \o rec.content_type
                            \o <<";", "b", "a", "s", "e", "6", "4", ",">>
                kept == Min(100, 4 * ((rec.size + 2) \div 3))
            IN  /\ Len(rec.base64) = Len(head) + kept + 3
                /\ Len(rec.base64) <= Len(rec.content_type) + 116
                /\ SubSeq(rec.base64, 1, Len(head)) = head
                /\ SubSeq(rec.base64, Len(head) + 1, Len(head) + kept)
                       = SubSeq(Encoded(rec), 1, kept)
                /\ SubSeq(rec.base64, Len(head) + kept + 1, Len(rec.base64))
                       = <<".", ".", ".">>
                /\ (kept = Len(Encoded(rec))) = (rec.size <= 75)

C9_Witness ==
    /\ Succeeded(result)
    /\ \E j \in 1..Len(result.images) :
         result.images[j].size = 76 /\ Len(Encoded(result.images[j])) = 104
    /\ \E j \in 1..Len(result.images) : result.images[j].size = 1

\* how often the warning for the picture p was printed
Warnings(p) == Cardinality({j \in 1..Len(stderr) : stderr[j] = Warning(p[1], p[2])})

\* C10: a picture whose extraction fails is skipped with one warning naming its
\* slide and its shape index; every other picture of the slide and of the later
\* slides is recorded, in its slide's record and in the result; the text of every
\* slide record is what the text script gives; and the run succeeds whenever the
\* text script does and the output directory could be made
C10_FailedPictureSkipped ==
    /\ Truthy(output_dir) =>
         \A p \in Pictures :
             p[1] <= Len(slides) =>
                 IF ExtractionFails(p)
                 THEN Warnings(p) = 1 /\ RecordsOf(slides[p[1]].images, p) = {}
                 ELSE /\ Warnings(p) = 0
                      /\ Cardinality(RecordsOf(slides[p[1]].images, p)) = 1
                      /\ Cardinality(RecordsOf(all_images, p)) = 1
    /\ \A n \in 1..Len(slides) :
         /\ slides[n].slide_number = slidesT[n].slide_number
         /\ slides[n].content = slidesT[n].content
         /\ slides[n].text_count = slidesT[n].text_count
    /\ (pc = "Done" /\ ~(Truthy(output_dir) /\ dir_state = "blocked"))
           => /\ result.success = resultT.success
              /\ result.success => result.slides = slides /\ result.images = all_images

C10_Witness ==
    /\ Succeeded(result)
    /\ Truthy(output_dir)
    /\ Len(prs.slides) = 2
    /\ <<1, 0>> \in Pictures /\ ExtractionFails(<<1, 0>>)
    /\ <<1, 1>> \in Pictures /\ ~ExtractionFails(<<1, 1>>)
    /\ <<2, 1>> \in Pictures /\ ~ExtractionFails(<<2, 1>>)
    /\ Len(result.images) = 2
    /\ stderr = <<Warning(1, 0)>>

-----------------------------------------------------------------------------
(* Failures, the shape of the result, and the two scripts side by side *)

\* C11: when file_path names no existing file the run returns exactly
\* {success: False, error: "File not found: <path>"} and leaves the disk as it
\* was: no file is written and the output directory is not created, supplied or not
C11_MissingFileNotFound ==
    (pc = "Done" /\ file_state = "missing") =>
        /\ result = [success |-> FALSE,
                     error |-> <<"F", "i", "l", "e", " ", "n", "o", "t", " ", "f", "o", "u",
                                 "n", "d", ":", " ">> \o file_path]
        /\ files = disk0.files
        /\ dir_state = disk0.dir_state

\* sub occurs in s
Contains(s, sub) ==
    \E i \in 0..(Len(s) - Len(sub)) : SubSeq(s, i + 1, i + Len(sub)) = sub

\* a record of exactly success = False and one error string
FailureRecord(r) ==
    /\ DOMAIN r = {"success", "error"}
    /\ r.success = FALSE

\* each run goes on until it has returned, and an exception raised ends it
Terminates ==
    /\ (pc = "Done" /\ pcT = "Done") \/ ENABLED Next
    /\ pc = "Done" => Returned(result)
    /\ pcT = "Done" => Returned(resultT)
    /\ exc # NoException => pc = "Done"
    /\ excT # NoException => pcT = "Done"

\* C12 as claimed: every run ends with a returned record, and a failure record is
\* exactly success = False and an error string that contains the message of the
\* exception caught
C12_FailureCarriesDiagnostic ==
    /\ Terminates
    /\ (pc = "Done" /\ ~result.success) =>
           FailureRecord(result) /\ Contains(result.error, exc.text)
    /\ (pcT = "Done" /\ ~resultT.success) =>
           FailureRecord(resultT) /\ Contains(resultT.error, excT.text)

\* the error string for the exception e: the message of e after a fixed prefix,
\* but for FileNotFoundError the path and no message
ErrorOf(e) ==
    IF e.type = "FileNotFoundError"
    THEN <<"F", "i", "l", "e", " ", "n", "o", "t", " ", "f", "o", "u", "n", "d", ":", " ">>
             \o file_path
    ELSE <<"E", "r", "r", "o", "r", " ", "e", "x", "t", "r", "a", "c", "t", "i", "n", "g",
           " ", "P", "P", "T", "X", ":", " ">> \o e.text

\* C12: no exception leaves either entry point: every run ends with a returned
\* record, a success record when nothing was raised and otherwise a failure
\* record of exactly success = False and one error string, which is
\* "Error extracting PPTX: " and the message of the exception, except that for a
\* FileNotFoundError it is "File not found: <path>" without the message
C12_FailureRecord ==
    /\ Terminates
    /\ pc = "Done" =>
           IF exc = NoException THEN result.success
           ELSE FailureRecord(result) /\ result.error = ErrorOf(exc)
    /\ pcT = "Done" =>
           IF excT = NoException THEN resultT.success
           ELSE FailureRecord(resultT) /\ resultT.error = ErrorOf(excT)

C12_Witness ==
    /\ pc = "Done"
    /\ exc.type = "FileNotFoundError"
    /\ excT.type = "PackageNotFoundError"
    /\ FailureRecord(result)
    /\ FailureRecord(resultT)
    /\ ~Contains(result.error, exc.text)
    /\ Contains(resultT.error, excT.text)

\* C13 as claimed: a success result has total_images and images, and each slide
\* record has images, exactly when an output directory was supplied; without one
\* no image field appears anywhere
C13_ImageFieldsIffOutputDir ==
    Succeeded(result) =>
        LET supplied == ~output_dir.is_none
        IN  /\ ("total_images" \in DOMAIN result) = supplied
            /\ ("images" \in DOMAIN result) = supplied
            /\ \A k \in 1..Len(result.slides) :
                   ("images" \in DOMAIN result.slides[k]) = supplied

\* C13: a success result of the image script always has total_images and images,
\* 0 and the empty list when no output directory was supplied or the one
\* supplied is the empty string; a slide record has images exactly when a
\* non-empty output directory was supplied
C13_ImageFields ==
    Succeeded(result) =>
        /\ {"total_images", "images"} \subseteq DOMAIN result
        /\ \A k \in 1..Len(result.slides) :
               ("images" \in DOMAIN result.slides[k])
                   = (~output_dir.is_none /\ output_dir.value # <<>>)
        /\ (output_dir.is_none \/ output_dir.value = <<>>)
               => result.total_images = 0 /\ result.images = <<>>

C13_Witness ==
    /\ Succeeded(result)
    /\ output_dir.is_none
    /\ Pictures # {}
    /\ result.total_images = 0
    /\ result.images = <<>>
    /\ "images" \notin DOMAIN result.slides[1]

\* the sum of the lengths of the image lists of the slide records
RECURSIVE SumOfCounts(_)
SumOfCounts(ss) == IF ss = <<>> THEN 0 ELSE Len(Head(ss).images) + SumOfCounts(Tail(ss))

\* C14: with a non-empty output directory, the images of a success result are
\* the image lists of the slide records one after the other in slide order, and
\* total_images is the length of that list, the sum of the per-slide counts
C14_ImagesFlattened ==
    (Succeeded(result) /\ Truthy(output_dir)) =>
        /\ result.images
               = Flatten([k \in 1..Len(result.slides) |-> result.slides[k].images])
        /\ result.total_images = Len(result.images)
        /\ result.total_images = SumOfCounts(result.slides)

C14_Witness ==
    /\ Succeeded(result)
    /\ Truthy(output_dir)
    /\ Len(result.slides) = 2
    /\ Len(result.slides[1].images) = 2
    /\ Len(result.slides[2].images) = 1
    /\ result.total_images = 3
    /\ result.images[3] = result.slides[2].images[1]

\* the result r is that of the worked example, with text_count n for slide 1
ScenarioResult(r, n) ==
    /\ Len(r.slides) = 2
    /\ r.slides[1].content
           = <<"I", "n", "t", "r", "o", "\n", "A", " ", "|", " ", "B", "\n",
               "C", " ", "|", " ", "D">>
    /\ r.slides[1].text_count = n
    /\ r.slides[2].content
           = <<"S", "p", "e", "a", "k", "e", "r", " ", "N", "o", "t", "e", "s", ":", " ",
               "R", "e", "m", "e", "m", "b", "e", "r", " ", "X">>
    /\ r.slides[2].text_count = 1
    /\ r.slides_with_text = 2
    /\ r.full_text
           = <<"=", "=", "=", " ", "S", "l", "i", "d", "e", " ", "1", " ", "=", "=", "=", "\n",
               "I", "n", "t", "r", "o", "\n", "A", " ", "|", " ", "B", "\n",
               "C", " ", "|", " ", "D", "\n", "\n",
               "=", "=", "=", " ", "S", "l", "i", "d", "e", " ", "2", " ", "=", "=", "=", "\n",
               "S", "p", "e", "a", "k", "e", "r", " ", "N", "o", "t", "e", "s", ":", " ",
               "R", "e", "m", "e", "m", "b", "e", "r", " ", "X">>

\* C15 as claimed: the deck of the worked example gives the contents, the
\* full_text and slides_with_text = 2 of the example, with text_count = 2 for
\* slide 1 and 1 for slide 2
C15_ScenarioTextCountTwo ==
    /\ (Succeeded(result) /\ prs.slides = ScenarioDeck) => ScenarioResult(result, 2)
    /\ (Succeeded(resultT) /\ prs.slides = ScenarioDeck) => ScenarioResult(resultT, 2)

\* C15: the deck of the worked example gives slide 1 the content
\* "Intro\nA | B\nC | D" with text_count = 3, one fragment for the title and one
\* for each table row; slide 2 the content "Speaker Notes: Remember X" with
\* text_count = 1; slides_with_text = 2; and the full_text of the example
C15_Scenario ==
    /\ (Succeeded(result) /\ prs.slides = ScenarioDeck) => ScenarioResult(result, 3)
    /\ (Succeeded(resultT) /\ prs.slides = ScenarioDeck) => ScenarioResult(resultT, 3)

C15_Witness ==
    /\ prs.slides = ScenarioDeck
    /\ prs.core_properties = NoProps
    /\ Succeeded(result)
    /\ Succeeded(resultT)
    /\ result.slides[1].text_count = 3
    /\ resultT.slides[1].text_count = 3

\* the part of the content type after its "/", "" when there is none
AfterSlash(ct) ==
    LET at == {i \in 1..Len(ct) : ct[i] = "/"}
    IN  IF at = {} THEN <<>> ELSE SubSeq(ct, SetMin(at) + 1, Len(ct))

\* the extension in the filename of the record rec of the picture p
ExtensionOf(rec, p) == SubSeq(rec.filename, Len(NameStem(p)) + 1, Len(rec.filename))

\* C16: the extension of an extracted picture's file is the subtype after "/" in
\* its content type, and "png" when there is no subtype: no "/", or nothing
\* after it; the extension is never empty
C16_ExtensionNeverEmpty ==
    \A p \in Pictures :
        \A j \in RecordsOf(all_images, p) :
            LET ct == PictureAt(p).content_type
                ext == ExtensionOf(all_images[j], p)
            IN  /\ ext # <<>>
                /\ ext = IF AfterSlash(ct) = <<>> THEN <<"p", "n", "g">> ELSE AfterSlash(ct)

\* C17 as claimed: a failure result comes only from the failed load, before any
\* slide was processed or any file written, and a run that loaded the package
\* ends with success = True
C17_FailureOnlyFromIdle ==
    /\ (pc = "Done" /\ ~result.success) =>
           loader = "Failed" /\ slides = <<>> /\ files = disk0.files
    /\ (pc = "Done" /\ loader = "Loaded") => result.success

\* the slides whose notes slide has no notes placeholder
SlidesWithoutNotesFrame ==
    {k \in 1..Len(prs.slides) :
        prs.slides[k].has_notes_slide /\ ~prs.slides[k].has_notes_frame}

\* C17: the loader moves from Idle to Loaded or to Failed and stays there; a
\* failed load ends the run with a failure record and the disk untouched; a run
\* that loaded fails too, when the output directory cannot be created (before
\* any slide) or when a slide's notes cannot be read (after the slides before
\* it were processed and their pictures written), and succeeds otherwise; a
\* failure record never carries metadata or slides
C17_LoaderStates ==
    /\ (loader = "Idle") = (pc = "Idle")
    /\ loader = "Failed" =>
           /\ file_state # "ok" /\ pc = "Done"
           /\ FailureRecord(result)
           /\ slides = <<>> /\ files = disk0.files /\ dir_state = disk0.dir_state
    /\ loader = "Loaded" => file_state = "ok"
    /\ (pc = "Done" /\ loader = "Loaded") =>
           IF ~output_dir.is_none /\ output_dir.value # <<>> /\ disk0.dir_state = "blocked"
           THEN FailureRecord(result) /\ slides = <<>> /\ files = disk0.files
           ELSE IF SlidesWithoutNotesFrame # {}
           THEN /\ FailureRecord(result)
                /\ Len(slides) = SetMin(SlidesWithoutNotesFrame) - 1
           ELSE result.success /\ Len(slides) = Len(prs.slides)

C17_Witness ==
    /\ pc = "Done"
    /\ loader = "Loaded"
    /\ FailureRecord(result)
    /\ Len(slides) = 1
    /\ files # disk0.files

\* C18 as claimed: the output directory is created no earlier than the first
\* picture is about to be persisted, and a run that persists no picture leaves
\* it uncreated
C18_DirectoryCreatedLazily ==
    /\ dir_state # disk0.dir_state =>
           /\ pc \in {"Slides", "Done"}
           /\ \E p \in Pictures : p[1] <= Len(slides) + 1
    /\ (pc = "Done" /\ files = disk0.files) => dir_state = disk0.dir_state

\* C18: the output directory is created eagerly: a non-empty output_dir whose
\* path does not exist is created as soon as the package has loaded, before the
\* metadata is read and before any slide is visited, whether or not a picture is
\* persisted later; nothing is created when the load fails, when output_dir is
\* missing or empty, or when the path exists; and no file is written before that
C18_DirectoryCreatedEagerly ==
    /\ dir_state = IF /\ ~output_dir.is_none /\ output_dir.value # <<>>
                      /\ disk0.dir_state = "absent"
                      /\ loader = "Loaded" /\ pc # "MakeDirs"
                   THEN "dir"
                   ELSE disk0.dir_state
    /\ pc \in {"Idle", "MakeDirs", "Metadata"} => files = disk0.files

C18_Witness ==
    /\ Succeeded(result)
    /\ prs.slides = <<>>
    /\ output_dir = Some(OutDir)
    /\ disk0.dir_state = "absent"
    /\ dir_state = "dir"
    /\ files = disk0.files

\* the text fields of the results a and b are the same
SameText(a, b) ==
    /\ a.metadata = b.metadata
    /\ Len(a.slides) = Len(b.slides)
    /\ \A k \in 1..Len(a.slides) :
         /\ a.slides[k].slide_number = b.slides[k].slide_number
         /\ a.slides[k].content = b.slides[k].content
         /\ a.slides[k].text_count = b.slides[k].text_count
         /\ DOMAIN a.slides[k] \ {"images"} = DOMAIN b.slides[k]
    /\ a.full_text = b.full_text
    /\ a.total_slides = b.total_slides
    /\ a.slides_with_text = b.slides_with_text
    /\ a.total_characters = b.total_characters
    /\ DOMAIN a \ {"total_images", "images"} = DOMAIN b

\* C19 as claimed: for every package and every output directory, creatable or
\* not, the two scripts return the same success flag and, on success, the same
\* text fields; the image script only adds image fields
C19_ExtractorsAgree ==
    pc = "Done" =>
        /\ result.success = resultT.success
        /\ result.success => SameText(result, resultT)

\* C19: the two scripts return the same success flag and, on success, the same
\* metadata, slide numbers, contents, text counts, full_text and counters, the
\* image script only adding image fields, for every package, every pattern of
\* per-image failures and every output directory that is missing, empty, exists
\* or can be created; with an output directory that cannot be created the image
\* script fails on every package that loads, where the text script may succeed
C19_ExtractorsAgreeUnlessBlocked ==
    pc = "Done" =>
        IF /\ ~output_dir.is_none /\ output_dir.value # <<>>
           /\ disk0.dir_state = "blocked" /\ file_state = "ok"
        THEN ~result.success /\ resultT.success = (SlidesWithoutNotesFrame = {})
        ELSE /\ result.success = resultT.success
             /\ result.success => SameText(result, resultT)

C19_Witness ==
    /\ Succeeded(result)
    /\ Succeeded(resultT)
    /\ output_dir = Some(OutDir)
    /\ Len(result.slides) = 2
    /\ stderr # <<>>
    /\ Len(result.images) = 1
    /\ result.total_characters > 0

====
